---- MODULE Spec2Model ----
(***************************************************************************)
(* MagicQuadrant (src/main.py): a Dash application holding a process-wide  *)
(* registry of companies bucketed in four quadrants, and one callback,     *)
(* update_output, that applies the triggered action and re-derives the     *)
(* chart, the roster and the CSV export.                                   *)
(*                                                                         *)
(* Python strings that the code inspects (company names, the triggered     *)
(* prop_id) are sequences of tokens: a token is a maximal run of           *)
(* characters that the code never looks inside ("Acme", "n_clicks", the    *)
(* component ids) or the single character ".".  The substring test         *)
(* `'add-company-button' in triggered_id` is the test that the token       *)
(* occurs in the sequence, and `split('.')` cuts at the "." tokens.        *)
(* Other Python values are strings that spell them ("None", "[]").         *)
(***************************************************************************)
EXTENDS Integers, Sequences, FiniteSets, TLC

VARIABLES companies, logo_urls, logos, request, dual_use_filter_value, title_output, figure,
          company_list, csv

vars == <<companies, logo_urls, logos, request, dual_use_filter_value, title_output, figure,
          company_list, csv>>

(***************************************************************************)
(* Bounds of the model.                                                    *)
(***************************************************************************)
MaxEntities == 2

(***************************************************************************)
(* Python values.                                                          *)
(***************************************************************************)
\* None where a string of tokens is expected (a form field never typed in).
None == <<"<None>">>

EmptyStr == <<>>

\* truth value of a company name: None and "" are falsy
TruthyName(s) == s # None /\ s # EmptyStr

\* truth value of the other inputs, spelled as strings
Truthy(v) == v \notin {"None", "", "[]", "False"}

\* the dict `companies`: its keys in their fixed order (src/main.py:15-20)
QuadrantOrder == <<"Visionaries/Innovators", "Leaders", "Niche Players", "Challengers">>

Quadrants == {QuadrantOrder[k] : k \in 1..Len(QuadrantOrder)}

\* A Python dict name -> details is the sequence of its items in insertion
\* order; keys are unique.
Keys(d) == {d[k].company : k \in 1..Len(d)}

KeySeq(d) == [k \in 1..Len(d) |-> d[k].company]

IndexOf(d, name) == CHOOSE k \in 1..Len(d) : d[k].company = name

\* an assignment that moves an existing key to the end
DictSetMoveToEnd(d, name, details) ==
    Append(SelectSeq(d, LAMBDA e : e.company # name), [company |-> name, dual_use |-> details])

\* d[name] = details: an existing key keeps its position, a new key is appended
DictSet(d, name, details) ==
    IF name \in Keys(d)
    THEN [k \in 1..Len(d) |-> IF d[k].company = name
                               THEN [company |-> name, dual_use |-> details]
                               ELSE d[k]]
    ELSE Append(d, [company |-> name, dual_use |-> details])

\* a removal that fills the hole with the last item
DictDelSwapLast(d, name) ==
    LET p == IndexOf(d, name)
    IN  IF p = Len(d) THEN SubSeq(d, 1, Len(d) - 1)
        ELSE [k \in 1..(Len(d) - 1) |-> IF k = p THEN d[Len(d)] ELSE d[k]]

\* del d[name], for a key of d
DictDel(d, name) ==
    LET p == IndexOf(d, name)
    IN  SubSeq(d, 1, p - 1) \o SubSeq(d, p + 1, Len(d))

\* m[name] = v for the dicts keyed by name alone (logos, logo_urls)
MapSet(m, name, v) == [x \in DOMAIN m \cup {name} |-> IF x = name THEN v ELSE m[x]]

MapDel(m, name) == [x \in DOMAIN m \ {name} |-> m[x]]

\* m.get(name)
MapGet(m, name) == IF name \in DOMAIN m THEN m[name] ELSE "None"

EmptyMap == [x \in {} |-> "None"]

EmptyCompanies == [q \in Quadrants |-> <<>>]

(***************************************************************************)
(* The derived views.                                                      *)
(***************************************************************************)
\* positions (src/main.py:45-50)
AnchorX(q) == IF q \in {"Leaders", "Challengers"} THEN 75 ELSE 25

AnchorY(q) == IF q \in {"Leaders", "Visionaries/Innovators"} THEN 75 ELSE 25

\* a grid two columns wide
GridXTwoColumns(x, i) == x + (i % 2) * 10

\* x and y of the image of the i-th enumerated company (i from 0)
GridX(x, i) == x + (i % 3) * 10

GridY(y, i) == y - (i \div 3) * 10

\* the dict comprehension of the filter: the dual-use items, in order
DualUseOnly(d) == SelectSeq(d, LAMBDA e : e.dual_use)

filtered_companies(cs, dual_use_filter) ==
    IF Truthy(dual_use_filter) THEN [q \in Quadrants |-> DualUseOnly(cs[q])] ELSE cs

\* an enumeration of the companies that have a logo only
QuadrantImagesOfLogosOnly(q, d, lg) ==
    LET have == SelectSeq(d, LAMBDA e : MapGet(lg, e.company) \notin {"None", ""})
    IN  [k \in 1..Len(have) |-> [company |-> have[k].company,
                                 quadrant |-> q,
                                 source  |-> MapGet(lg, have[k].company),
                                 x       |-> AnchorX(q) + ((k - 1) % 3) * 10,
                                 y       |-> AnchorY(q) - ((k - 1) \div 3) * 10]]

\* The images added for one quadrant.  `company` and `quadrant` are not fields
\* of the image: they record which company the image was added for.
QuadrantImages(q, d, lg) ==
    LET slot(k) == [company |-> d[k].company,
                    quadrant |-> q,
                    source  |-> MapGet(lg, d[k].company),
                    x       |-> GridX(AnchorX(q), k - 1),
                    y       |-> GridY(AnchorY(q), k - 1)]
        slots == [k \in 1..Len(d) |-> slot(k)]
    IN  SelectSeq(slots, LAMBDA s : Truthy(s.source))

\* a chart that enumerates the whole Store and leaves out the images of the
\* companies the filter hides
update_chart_filtering_images(cs, lg, dual_use_filter) ==
    LET shown(q) ==
            SelectSeq([k \in 1..Len(cs[q]) |->
                          [company |-> cs[q][k].company,
                           quadrant |-> q,
                           source  |-> MapGet(lg, cs[q][k].company),
                           x       |-> AnchorX(q) + ((k - 1) % 3) * 10,
                           y       |-> AnchorY(q) - ((k - 1) \div 3) * 10,
                           hidden  |-> dual_use_filter \notin {"None", "", "[]", "False"}
                                       /\ ~cs[q][k].dual_use]],
                      LAMBDA s : s.source \notin {"None", ""} /\ ~s.hidden)
        image(s) == [company |-> s.company, quadrant |-> s.quadrant, source |-> s.source,
                     x |-> s.x, y |-> s.y]
        images(q) == [k \in 1..Len(shown(q)) |-> image(shown(q)[k])]
    IN  images(QuadrantOrder[1]) \o images(QuadrantOrder[2])
        \o images(QuadrantOrder[3]) \o images(QuadrantOrder[4])

\* fig.layout.images of the figure update_chart returns: update_layout(images=[])
\* merges an empty list into the images already added and leaves them in place.
update_chart(cs, lg, dual_use_filter) ==
    LET f == filtered_companies(cs, dual_use_filter)
    IN  QuadrantImages(QuadrantOrder[1], f[QuadrantOrder[1]], lg)
        \o QuadrantImages(QuadrantOrder[2], f[QuadrantOrder[2]], lg)
        \o QuadrantImages(QuadrantOrder[3], f[QuadrantOrder[3]], lg)
        \o QuadrantImages(QuadrantOrder[4], f[QuadrantOrder[4]], lg)

\* one html.Li per company: the logo, the name and the id of its Delete button
RosterItems(d, lg) ==
    [k \in 1..Len(d) |-> [src       |-> MapGet(lg, d[k].company),
                          company   |-> d[k].company,
                          button_id |-> [type |-> "delete-button", index |-> d[k].company]]]

generate_company_list(cs, lg) ==
    [k \in 1..Len(QuadrantOrder) |->
        [quadrant |-> QuadrantOrder[k], items |-> RosterItems(cs[QuadrantOrder[k]], lg)]]

\* the records of a quadrant, the newest company first
ExportRowsNewestFirst(q, d) ==
    [k \in 1..Len(d) |-> [Company |-> d[Len(d) + 1 - k].company, Quadrant |-> q,
                          DualUse |-> d[Len(d) + 1 - k].dual_use]]

\* the records handed to the DataFrame (the CSV and base64 encodings are not modelled)
ExportRows(q, d) ==
    [k \in 1..Len(d) |-> [Company |-> d[k].company, Quadrant |-> q, DualUse |-> d[k].dual_use]]

\* an export of what the filter would leave
generate_csv_dual_use(cs) ==
    ExportRows(QuadrantOrder[1], DualUseOnly(cs[QuadrantOrder[1]]))
    \o ExportRows(QuadrantOrder[2], DualUseOnly(cs[QuadrantOrder[2]]))
    \o ExportRows(QuadrantOrder[3], DualUseOnly(cs[QuadrantOrder[3]]))
    \o ExportRows(QuadrantOrder[4], DualUseOnly(cs[QuadrantOrder[4]]))

generate_csv(cs) ==
    ExportRows(QuadrantOrder[1], cs[QuadrantOrder[1]])
    \o ExportRows(QuadrantOrder[2], cs[QuadrantOrder[2]])
    \o ExportRows(QuadrantOrder[3], cs[QuadrantOrder[3]])
    \o ExportRows(QuadrantOrder[4], cs[QuadrantOrder[4]])

(***************************************************************************)
(* The triggered prop_id, as Dash builds it: "<component id>.<property>",  *)
(* a dict id being written as JSON with sorted keys and no spaces.         *)
(***************************************************************************)
InitialPropId == <<".">>

TitlePropId == <<"title-input", ".", "value">>

AddPropId == <<"add-company-button", ".", "n_clicks">>

FilterPropId == <<"dual-use-filter", ".", "value">>

ResetPropId == <<"reset-graph-button", ".", "n_clicks">>

DeletePropId(name) ==
    <<"{\"index\":\"">> \o name \o <<"\",\"type\":\"", "delete-button", "\"}", ".", "n_clicks">>

\* word in s
Contains(word, s) == \E k \in 1..Len(s) : s[k] = word

\* s.split('.')[0]
SplitDot0(s) ==
    IF Contains(".", s)
    THEN SubSeq(s, 1, (CHOOSE k \in 1..Len(s) : s[k] = "." /\ \A j \in 1..(k - 1) : s[j] # ".") - 1)
    ELSE s

\* eval(text)['index']: text is a dict literal exactly when it is the whole
\* JSON id; cut anywhere else it is a SyntaxError (raised |-> TRUE).
EvalIndex(text) ==
    LET n == Len(text)
    IN  IF /\ n >= 4
           /\ text[1] = "{\"index\":\""
           /\ text[n - 2] = "\",\"type\":\""
           /\ text[n - 1] = "delete-button"
           /\ text[n] = "\"}"
           /\ \A k \in 2..(n - 3) : text[k] \notin {"{\"index\":\"", "\",\"type\":\"", "\"}"}
        THEN [raised |-> FALSE, index |-> SubSeq(text, 2, n - 3)]
        ELSE [raised |-> TRUE, index |-> None]

(***************************************************************************)
(* update_output, branch by branch.  st is the three globals.              *)
(***************************************************************************)
\* the Add branch guarded by the click count: true of every request made by the page
AddClickedBefore(triggered_id) == triggered_id # InitialPropId

AddTriggered(triggered_id) == Contains("add-company-button", triggered_id)

DeleteTriggered(triggered_id) == Contains("delete-button", triggered_id)

ResetTriggered(triggered_id) == Contains("reset-graph-button", triggered_id)

\* the test without the logo URL
FormFilledButUrl(req) == TruthyName(req.company_name) /\ Truthy(req.quadrant)

\* company_name and quadrant and logo_url
FormFilled(req) == TruthyName(req.company_name) /\ Truthy(req.quadrant) /\ Truthy(req.logo_url)

\* bool(dual_use)
Bool(v) == Truthy(v)

\* fetch_logo: the data URI of the resized logo, or None on any exception.  Which
\* URLs serve an image is the environment's.
fetch_logo(company_name, url) ==
    IF url = "https://logo" THEN "data:image/png;base64" ELSE "None"

\* an Add that gives up when the logo cannot be fetched
HandleAddUnlessFetchFails(st, req) ==
    IF /\ Contains("add-company-button", req.triggered_id)
       /\ TruthyName(req.company_name) /\ Truthy(req.quadrant) /\ Truthy(req.logo_url)
       /\ req.logo_url = "https://logo"
    THEN [companies |-> [st.companies EXCEPT ![req.quadrant] =
                            DictSet(@, req.company_name, Truthy(req.dual_use))],
          logo_urls |-> MapSet(st.logo_urls, req.company_name, req.logo_url),
          logos     |-> MapSet(st.logos, req.company_name, "data:image/png;base64")]
    ELSE st

\* lines 207-211
HandleAdd(st, req) ==
    IF AddTriggered(req.triggered_id) /\ FormFilled(req)
    THEN [companies |-> [st.companies EXCEPT ![req.quadrant] =
                            DictSet(@, req.company_name, Bool(req.dual_use))],
          logo_urls |-> MapSet(st.logo_urls, req.company_name, req.logo_url),
          logos     |-> MapSet(st.logos, req.company_name,
                              fetch_logo(req.company_name, req.logo_url))]
    ELSE st

\* the first quadrant, in the order of the dict, that holds the name (0: none)
FirstHolding(cs, name) ==
    IF \E k \in 1..Len(QuadrantOrder) : name \in Keys(cs[QuadrantOrder[k]])
    THEN CHOOSE k \in 1..Len(QuadrantOrder) :
            /\ name \in Keys(cs[QuadrantOrder[k]])
            /\ \A j \in 1..(k - 1) : name \notin Keys(cs[QuadrantOrder[j]])
    ELSE 0

\* lines 214-223.  del logos[...] raises KeyError for a missing key, after the
\* company was deleted; every exception ends the branch.
HandleDelete(st, req) ==
    IF DeleteTriggered(req.triggered_id)
    THEN LET ev == EvalIndex(SplitDot0(req.triggered_id))
             k  == FirstHolding(st.companies, ev.index)
         IN  IF ev.raised \/ k = 0
             THEN st
             ELSE [st EXCEPT !.companies[QuadrantOrder[k]] = DictDel(@, ev.index),
                             !.logos = IF ev.index \in DOMAIN @ THEN MapDel(@, ev.index) ELSE @]
    ELSE st

\* line 226: dual_use_filter and 'dual_use' in dual_use_filter
FilterValue(dual_use_filter) ==
    IF ~Truthy(dual_use_filter) THEN dual_use_filter
    ELSE IF dual_use_filter = "['dual_use']" THEN "True" ELSE "False"

\* a reset that keeps the logos
HandleResetKeepLogos(st, req) ==
    IF Contains("reset-graph-button", req.triggered_id)
    THEN [companies |-> EmptyCompanies, logo_urls |-> EmptyMap, logos |-> st.logos]
    ELSE st

\* lines 229-237
HandleReset(st, req) ==
    IF ResetTriggered(req.triggered_id)
    THEN [companies |-> EmptyCompanies, logo_urls |-> EmptyMap, logos |-> EmptyMap]
    ELSE st

\* line 238
ResetFilterValue(req, value) == IF ResetTriggered(req.triggered_id) THEN "None" ELSE value

\* line 204
TitleOutput(req) == req.title

\* the globals after the three branches
Mutated(st, req) == HandleReset(HandleDelete(HandleAdd(st, req), req), req)

Globals == [companies |-> companies, logo_urls |-> logo_urls, logos |-> logos]

EntityCount(cs) ==
    Len(cs[QuadrantOrder[1]]) + Len(cs[QuadrantOrder[2]])
    + Len(cs[QuadrantOrder[3]]) + Len(cs[QuadrantOrder[4]])

\* a callback that builds the export before it applies the action
update_output_export_first(req) ==
    /\ companies' = Mutated(Globals, req).companies
    /\ logo_urls' = Mutated(Globals, req).logo_urls
    /\ logos' = Mutated(Globals, req).logos
    /\ request' = req
    /\ dual_use_filter_value' = ResetFilterValue(req, FilterValue(req.dual_use_filter))
    /\ title_output' = req.title
    /\ figure' = update_chart(companies', logos', dual_use_filter_value')
    /\ company_list' = generate_company_list(companies', logos')
    /\ csv' = generate_csv(companies)

\* One call of the callback: the globals are updated and the four outputs returned.
update_output(req) ==
    \E st \in {Mutated(Globals, req)} :
        /\ companies' = st.companies
        /\ logo_urls' = st.logo_urls
        /\ logos' = st.logos
        /\ request' = req
        /\ dual_use_filter_value' = ResetFilterValue(req, FilterValue(req.dual_use_filter))
        /\ title_output' = TitleOutput(req)
        /\ figure' = update_chart(companies', logos', dual_use_filter_value')
        /\ company_list' = generate_company_list(companies', logos')
        /\ csv' = generate_csv(companies')

(***************************************************************************)
(* The inputs the requests are drawn from.                                 *)
(***************************************************************************)
Acme == <<"Acme">>

Zeta == <<"Zeta">>

Orion == <<"Orion">>

Vega == <<"Vega">>

AcmeInc == <<"Acme", ".", "Inc">>

AddButtonCo == <<"add-company-button">>

\* names that meet the dispatch's string handling, and plain names
Names == {Acme, AcmeInc, AddButtonCo}

GridNames == {Acme, Zeta, Orion, Vega}

Titles == {"Magic Quadrant", "Atlas"}

\* the filter Checklist before any click, and checked (unchecked again it is [],
\* which line 226 and update_chart treat as they treat None)
FilterInputs == {"None", "['dual_use']"}

DualUseInputs == {"None", "['dual_use']"}

Form(name, quadrant, dual_use, logo_url) ==
    [company_name |-> name, quadrant |-> quadrant, dual_use |-> dual_use, logo_url |-> logo_url]

\* the form as first rendered: no field has a value
BlankForm == Form(None, "None", "None", "None")

\* forms with one field empty or missing
UnfilledForms ==
    {Form(None, "Leaders", "None", "https://logo"), Form(EmptyStr, "Leaders", "None", "https://logo"),
     Form(Acme, "None", "None", "https://logo"), Form(Acme, "Leaders", "None", "None"),
     Form(Acme, "Leaders", "['dual_use']", "")}

\* what the form may hold when Add Company is clicked
Forms ==
    UnfilledForms \cup
    {Form(n, q, d, "https://logo") : n \in Names, q \in {"Leaders", "Challengers"},
                                     d \in DualUseInputs}

GridForms ==
    {Form(n, "Leaders", d, "https://logo") : n \in GridNames, d \in DualUseInputs}
    \cup {Form(n, "Leaders", "['dual_use']", "https://broken") : n \in GridNames}

\* what the form may still hold when another input triggers the callback
StaleForms == {BlankForm, Form(Acme, "Challengers", "['dual_use']", "https://logo")}

(***************************************************************************)
(* The state after construction (lines 15-24 and the layout, 133-180) and  *)
(* the requests.  A request carries the value of every Input and State of  *)
(* the callback: the title and the filter stay what they were last set to. *)
(***************************************************************************)
FirstRequest ==
    [triggered_id |-> InitialPropId, title |-> "Magic Quadrant", dual_use_filter |-> "None",
     company_name |-> None, quadrant |-> "None", dual_use |-> "None", logo_url |-> "None"]

WithForm(req, form) ==
    [req EXCEPT !.company_name = form.company_name, !.quadrant = form.quadrant,
                !.dual_use = form.dual_use, !.logo_url = form.logo_url]

Init ==
    /\ companies = EmptyCompanies
    /\ logo_urls = EmptyMap
    /\ logos = EmptyMap
    /\ request = FirstRequest
    /\ dual_use_filter_value = "None"
    /\ title_output = "None"
    /\ figure = update_chart(EmptyCompanies, EmptyMap, "None")
    /\ company_list = generate_company_list(EmptyCompanies, EmptyMap)
    /\ csv = <<>>

\* the call Dash makes when the page is loaded: nothing is triggered
PageLoad == update_output(FirstRequest)

TitleEdit(forms) ==
    \E t \in Titles \ {request.title}, form \in forms :
        update_output(WithForm([request EXCEPT !.triggered_id = TitlePropId, !.title = t], form))

AddCompany(forms, max) ==
    \E form \in forms :
        /\ update_output(WithForm([request EXCEPT !.triggered_id = AddPropId], form))
        /\ EntityCount(companies') <= max

DeleteCompany(names, forms, max) ==
    \E name \in names, form \in forms :
        /\ update_output(WithForm([request EXCEPT !.triggered_id = DeletePropId(name)], form))
        /\ EntityCount(companies') <= max

FilterToggle(filters, forms) ==
    \E f \in filters \ {request.dual_use_filter}, form \in forms :
        update_output(WithForm([request EXCEPT !.triggered_id = FilterPropId,
                                               !.dual_use_filter = f], form))

ResetGraph(forms) ==
    \E form \in forms :
        update_output(WithForm([request EXCEPT !.triggered_id = ResetPropId], form))

Next ==
    \/ PageLoad
    \/ TitleEdit({BlankForm})
    \/ AddCompany(Forms, MaxEntities)
    \/ DeleteCompany(Names, StaleForms, MaxEntities)
    \/ FilterToggle(FilterInputs, StaleForms)
    \/ ResetGraph({BlankForm})

Spec == Init /\ [][Next]_vars

\* The grid: plain names, one quadrant, logos that resolve or not.
NextGrid ==
    \/ AddCompany(GridForms, Cardinality(GridNames))
    \/ DeleteCompany(GridNames, {BlankForm}, Cardinality(GridNames))
    \/ FilterToggle(FilterInputs, {BlankForm})
    \/ ResetGraph({BlankForm})

SpecGrid == Init /\ [][NextGrid]_vars

(***************************************************************************)
(* What the claims speak of.                                               *)
(***************************************************************************)
AllNames == Names \cup GridNames

\* the names present in some quadrant's mapping
StoredNames(cs) == UNION {Keys(cs[q]) : q \in Quadrants}

QuadrantsHolding(cs, name) == {q \in Quadrants : name \in Keys(cs[q])}

RosterNames(roster) ==
    UNION {{roster[k].items[j].company : j \in 1..Len(roster[k].items)} : k \in 1..Len(roster)}

ExportNames(rows) == {rows[k].Company : k \in 1..Len(rows)}

ImageNames(images) == {images[k].company : k \in 1..Len(images)}

\* the request just processed was the click on the Delete button of name
Deleted(name) == request'.triggered_id = DeletePropId(name)

\* the request just processed was the click on some Delete button
DeleteClicked ==
    request'.triggered_id \notin {InitialPropId, TitlePropId, AddPropId, FilterPropId, ResetPropId}

\* C1: in every reachable state each entity name appears in at most one
\* quadrant's mapping (an Add under another quadrant moves the name).
C1_NameInOneQuadrant ==
    \A name \in AllNames : Cardinality(QuadrantsHolding(companies, name)) <= 1

\* C2: after the Delete request of a name present in the Store, the name is in
\* no quadrant, no roster entry, no export record and no placed image.
C2_DeletedVanishes ==
    [][\A name \in AllNames :
          (Deleted(name) /\ name \in StoredNames(companies))
          => /\ name \notin StoredNames(companies')
             /\ name \notin RosterNames(company_list')
             /\ name \notin ExportNames(csv')
             /\ name \notin ImageNames(figure')]_vars

\* C3: from every reachable Store, a valid Add of E followed by Delete of E
\* gives back the Store as it was (names per quadrant, order, flags, logos).
C3_AddThenDeleteRestores ==
    \A form \in {f \in Forms \cup GridForms : FormFilled(f)} :
        LET add     == WithForm([request EXCEPT !.triggered_id = AddPropId], form)
            del     == [add EXCEPT !.triggered_id = DeletePropId(form.company_name)]
            after   == Mutated(Mutated(Globals, add), del)
        IN  after.companies = companies /\ after.logos = logos

\* the anchors of section 3 of the specification
AnchorOf(q) ==
    CASE q = "Leaders" -> <<75, 75>>
      [] q = "Challengers" -> <<75, 25>>
      [] q = "Visionaries/Innovators" -> <<25, 75>>
      [] q = "Niche Players" -> <<25, 25>>

\* the cell of index i (from 0) of quadrant q
CellOf(q, i) == <<AnchorOf(q)[1] + (i % 3) * 10, AnchorOf(q)[2] - (i \div 3) * 10>>

\* the list of a quadrant that a layout enumerates: the dual-use entities when
\* the filter is set, every entity otherwise
LaidOut(cs, q, filter) ==
    IF filter = "True" THEN SelectSeq(cs[q], LAMBDA e : e.dual_use = TRUE) ELSE cs[q]

HasLogo(lg, name) == name \in DOMAIN lg /\ lg[name] # "None"

ImageAt(images, name, q, cell) ==
    \E k \in 1..Len(images) :
        /\ images[k].company = name
        /\ images[k].quadrant = q
        /\ <<images[k].x, images[k].y>> = cell

\* C4: the entity at index i of the list a quadrant's layout enumerates is
\* placed at (ax + (i mod 3)*10, ay - floor(i/3)*10), and no two images of one
\* quadrant share a cell.
C4_GridCells ==
    /\ \A q \in Quadrants :
          LET d == LaidOut(companies, q, dual_use_filter_value)
          IN  \A i \in 0..(Len(d) - 1) :
                  HasLogo(logos, d[i + 1].company)
                  => ImageAt(figure, d[i + 1].company, q, CellOf(q, i))
    /\ \A j, k \in 1..Len(figure) :
          (j # k /\ figure[j].quadrant = figure[k].quadrant)
          => <<figure[j].x, figure[j].y>> # <<figure[k].x, figure[k].y>>

\* four images in one quadrant, the fourth in the second row
C4_Witness ==
    /\ Len(figure) = 4
    /\ \A k \in 1..4 : figure[k].quadrant = "Leaders"
    /\ <<figure[4].x, figure[4].y>> = <<75, 65>>
    /\ <<figure[3].x, figure[3].y>> = <<95, 75>>

\* the unfiltered layout of a Store
Layout(cs, lg) == update_chart(cs, lg, "None")

\* C5 as stated: after the Delete of an entity, every remaining entity of its
\* quadrant that had an image keeps that image's cell.
C5_CellsFixedAtInsertion ==
    [][DeleteClicked => \A name \in AllNames, q \in Quadrants :
          (Deleted(name) /\ name \in Keys(companies[q]) /\ name \notin Keys(companies'[q]))
          => \A m \in Keys(companies[q]) \cap Keys(companies'[q]) :
                (HasLogo(logos, m) /\ HasLogo(logos', m))
                => ImageAt(Layout(companies', logos'), m, q,
                           CellOf(q, IndexOf(companies[q], m) - 1))]_vars

\* C5 as amended: after the Delete of an entity the remaining entities of its
\* quadrant are enumerated anew: the ones inserted before it keep their index
\* and cell, the ones inserted after it move to the index one lower.
C5_CellsRecomputed ==
    [][DeleteClicked => \A name \in AllNames, q \in Quadrants :
          (Deleted(name) /\ name \in Keys(companies[q]) /\ name \notin Keys(companies'[q]))
          => \A m \in Keys(companies[q]) \cap Keys(companies'[q]) :
                LET was == IndexOf(companies[q], m) - 1
                    now == IF was > IndexOf(companies[q], name) - 1 THEN was - 1 ELSE was
                IN  /\ IndexOf(companies'[q], m) - 1 = now
                    /\ HasLogo(logos', m)
                       => ImageAt(Layout(companies', logos'), m, q, CellOf(q, now))]_vars

\* Acme, added before Zeta in Leaders, was deleted: Zeta is drawn at (75,75)
C5_Witness ==
    /\ request.triggered_id = DeletePropId(Acme)
    /\ Acme \in DOMAIN logo_urls
    /\ KeySeq(companies["Leaders"]) = <<Zeta>>
    /\ ImageAt(figure, Zeta, "Leaders", <<75, 75>>)

\* the entries (name and flag) of a quadrant
Entries(cs, q) == {cs[q][k] : k \in 1..Len(cs[q])}

StoreUnchanged == companies' = companies /\ logos' = logos /\ logo_urls' = logo_urls

\* C6: a request applies at most the effect of its own trigger: a title edit or
\* a filter toggle applies none, and the Delete of a stored entity adds or
\* overwrites nothing (no Add effect) and removes nothing else (no Reset effect).
C6_OneEffectPerRequest ==
    [][/\ request'.triggered_id \in {TitlePropId, FilterPropId} => StoreUnchanged
       /\ \A name \in AllNames :
             (Deleted(name) /\ name \in StoredNames(companies))
             => /\ \A q \in Quadrants : Entries(companies', q) \subseteq Entries(companies, q)
                /\ \A m \in DOMAIN logos' : m \in DOMAIN logos /\ logos'[m] = logos[m]
                /\ \A q \in Quadrants :
                      \A e \in Entries(companies, q) :
                          e.company # name => e \in Entries(companies', q)]_vars

\* C7: a filter toggle, and a request that only computes a filtered layout,
\* leaves the Store as it was: names, order, flags and logo references.
C7_FilterKeepsStore ==
    [][(\/ request'.triggered_id = FilterPropId
        \/ (request'.triggered_id = TitlePropId /\ dual_use_filter_value' = "True"))
       => StoreUnchanged]_vars

\* the filter was switched on, hides an entity from the chart, and the Store holds it
C7_Witness ==
    /\ request.triggered_id = FilterPropId
    /\ dual_use_filter_value = "True"
    /\ \E q \in Quadrants : \E e \in Entries(companies, q) :
          /\ ~e.dual_use
          /\ HasLogo(logos, e.company)
          /\ e.company \notin ImageNames(figure)
    /\ request.company_name = Acme
    /\ Acme \notin StoredNames(companies)

\* C8: after a Reset request the four quadrants are empty, no logo reference is
\* left, the chart was computed with the filter flag cleared and the title
\* returned is the title received.
C8_Reset ==
    request.triggered_id = ResetPropId
    => /\ \A q \in Quadrants : companies[q] = <<>>
       /\ DOMAIN companies = Quadrants
       /\ DOMAIN logos = {}
       /\ DOMAIN logo_urls = {}
       /\ dual_use_filter_value = "None"
       /\ figure = <<>>
       /\ title_output = request.title

\* a Reset received with the filter checked and an edited title
C8_Witness ==
    /\ request.triggered_id = ResetPropId
    /\ request.dual_use_filter = "['dual_use']"
    /\ request.title = "Atlas"
    /\ title_output = "Atlas"
    /\ dual_use_filter_value = "None"

\* C9: the export holds one record per entity of the Store, whatever the filter.
C9_ExportAll ==
    /\ Len(csv) = EntityCount(companies)
    /\ \A q \in Quadrants : \A e \in Entries(companies, q) :
          \E k \in 1..Len(csv) :
              csv[k] = [Company |-> e.company, Quadrant |-> q, DualUse |-> e.dual_use]

\* the filter is set and hides an entity that the export lists
C9_Witness ==
    /\ dual_use_filter_value = "True"
    /\ Len(csv) = 2
    /\ \E k \in 1..Len(csv) : ~csv[k].DualUse /\ csv[k].Company \notin ImageNames(figure)
    /\ Len(figure) = 1

\* an Add request with an empty or missing name, quadrant or logo source
UnfilledAdd(req) ==
    /\ req.triggered_id = AddPropId
    /\ \/ req.company_name \in {None, EmptyStr}
       \/ req.quadrant = "None"
       \/ req.logo_url \in {"None", ""}

\* C10: an Add request with an empty or missing name, quadrant or logo source
\* changes neither the quadrant mappings nor the logo references.
C10_UnfilledAddChangesNothing ==
    [][UnfilledAdd(request') => StoreUnchanged]_vars

\* an Add of Acme without logo URL was received by a Store that holds another
\* entity: Acme is nowhere
C10_Witness ==
    /\ UnfilledAdd(request)
    /\ request.company_name = Acme
    /\ request.quadrant = "Leaders"
    /\ request.logo_url = ""
    /\ Acme \notin StoredNames(companies)
    /\ Acme \notin DOMAIN logos
    /\ Acme \notin DOMAIN logo_urls
    /\ EntityCount(companies) = 1

\* the entry of name in quadrant q of a Store
EntryOf(cs, q, name) == cs[q][IndexOf(cs[q], name)]

\* the roster entry of name under quadrant q
RosterItem(roster, q, name) ==
    LET k == CHOOSE k \in 1..Len(roster) : roster[k].quadrant = q
    IN  {roster[k].items[j] : j \in {j \in 1..Len(roster[k].items) :
                                        roster[k].items[j].company = name}}

\* a filled Add request whose logo cannot be fetched
FailedFetchAdd(req) ==
    /\ req.triggered_id = AddPropId
    /\ req.company_name \notin {None, EmptyStr}
    /\ req.quadrant \in Quadrants
    /\ req.logo_url = "https://broken"

\* C11: an Add request with name, quadrant and logo source whose logo fetch
\* fails still creates the entity in the chosen quadrant with its dual-use flag
\* and an absent logo, and the request returns its outputs as any other: the
\* title, a roster and an export that list the entity, a chart without its image.
C11_FailedFetchStillAdds ==
    [][FailedFetchAdd(request')
       => LET n == request'.company_name
              q == request'.quadrant
          IN  /\ n \in Keys(companies'[q])
              /\ EntryOf(companies', q, n).dual_use = (request'.dual_use = "['dual_use']")
              /\ n \in DOMAIN logos' /\ logos'[n] = "None"
              /\ title_output' = request'.title
              /\ \E item \in RosterItem(company_list', q, n) : item.src = "None"
              /\ \E k \in 1..Len(csv') : csv'[k].Company = n /\ csv'[k].Quadrant = q
              /\ n \notin ImageNames(figure')]_vars

\* Zeta was added with a logo that cannot be fetched, next to an entity with one
C11_Witness ==
    /\ FailedFetchAdd(request)
    /\ request.company_name = Zeta
    /\ KeySeq(companies["Leaders"]) = <<Acme, Zeta>>
    /\ companies["Leaders"][2].dual_use
    /\ logos[Zeta] = "None"
    /\ ImageNames(figure) = {Acme}

\* the Delete request of name, the form holding no value
DeleteRequest(name) == WithForm([request EXCEPT !.triggered_id = DeletePropId(name)], BlankForm)

\* C12: the Delete of a name absent from the Store leaves the Store as it is,
\* and from every reachable state Delete(n) followed by Delete(n) gives the
\* Store that a single Delete(n) gives.
C12_DeleteIdempotent ==
    \A name \in AllNames :
        LET once  == Mutated(Globals, DeleteRequest(name))
            twice == Mutated(once, DeleteRequest(name))
        IN  /\ name \notin StoredNames(companies)
               => once.companies = companies /\ once.logos = logos
            /\ twice.companies = once.companies
            /\ twice.logos = once.logos

\* the chart of the Store as it is, had the logo of name resolved or not
ChartWithLogo(name, logo) == update_chart(companies, MapSet(logos, name, logo), dual_use_filter_value)

\* C13: an entity whose logo is absent has no image in the chart, and it takes
\* its index all the same: every other entity of its quadrant is placed in the
\* cell of its own index, whether the logo of the first resolved or not.
C13_AbsentLogoKeepsIndex ==
    \A q \in Quadrants :
        LET d == LaidOut(companies, q, dual_use_filter_value)
        IN  \A i \in 0..(Len(d) - 1) :
                LET n == d[i + 1].company
                IN  /\ ~HasLogo(logos, n) => n \notin ImageNames(figure)
                    /\ n \notin ImageNames(ChartWithLogo(n, "None"))
                    /\ \A j \in 0..(Len(d) - 1) :
                          (j # i /\ HasLogo(logos, d[j + 1].company))
                          => /\ ImageAt(ChartWithLogo(n, "None"), d[j + 1].company, q, CellOf(q, j))
                             /\ ImageAt(ChartWithLogo(n, "data:image/png;base64"),
                                        d[j + 1].company, q, CellOf(q, j))

\* Acme has no logo and no image; Zeta, added after it, is in the second cell
C13_Witness ==
    /\ KeySeq(companies["Leaders"]) = <<Acme, Zeta>>
    /\ logos[Acme] = "None"
    /\ HasLogo(logos, Zeta)
    /\ Len(figure) = 1
    /\ ImageAt(figure, Zeta, "Leaders", <<85, 75>>)

\* the number of dual-use entities before position k of a quadrant's mapping
DualUseBefore(d, k) == Cardinality({j \in 1..(k - 1) : d[j].dual_use})

\* C14: when the filter flag is set the chart places only dual-use entities,
\* each at the cell of its position among the dual-use entities of its
\* quadrant; when it is not set every entity is indexed by its position in
\* the Store.
C14_FilterIndexesFilteredList ==
    \A q \in Quadrants :
        LET d == companies[q]
        IN  IF dual_use_filter_value = "True"
            THEN /\ \A k \in 1..Len(figure) :
                       figure[k].quadrant = q
                       => \E e \in Entries(companies, q) :
                              e.company = figure[k].company /\ e.dual_use
                 /\ \A k \in 1..Len(d) :
                       (d[k].dual_use /\ HasLogo(logos, d[k].company))
                       => ImageAt(figure, d[k].company, q, CellOf(q, DualUseBefore(d, k)))
            ELSE \A k \in 1..Len(d) :
                     HasLogo(logos, d[k].company)
                     => ImageAt(figure, d[k].company, q, CellOf(q, k - 1))

\* the filter is set: Acme, first in the Store, is hidden and Zeta, second in
\* the Store, is placed in the first cell
C14_Witness ==
    /\ dual_use_filter_value = "True"
    /\ KeySeq(companies["Leaders"]) = <<Acme, Zeta>>
    /\ ~companies["Leaders"][1].dual_use
    /\ HasLogo(logos, Acme)
    /\ Len(figure) = 1
    /\ ImageAt(figure, Zeta, "Leaders", <<75, 75>>)

\* the entities of a Store: quadrant, name and flag
StoredEntities(cs) ==
    UNION {{<<q, cs[q][k].company, cs[q][k].dual_use>> : k \in 1..Len(cs[q])} : q \in Quadrants}

\* the entities the chart of a Store shows under a filter flag
ShownEntities(cs, lg, filter) ==
    {e \in StoredEntities(cs) : HasLogo(lg, e[2]) /\ (filter = "True" => e[3])}

\* the entries of a roster: quadrant heading, name and logo
RosterEntities(roster) ==
    UNION {{<<roster[k].quadrant, roster[k].items[j].company, roster[k].items[j].src>> :
                j \in 1..Len(roster[k].items)} : k \in 1..Len(roster)}

\* C15: the chart, the roster and the export of a payload are all derived from
\* the Store as the request's action left it: the roster and the export list
\* exactly its entities, with its logo references and flags, and the chart
\* shows exactly its entities that have a logo and pass the filter.
C15_ViewsOfPostMutationStore ==
    /\ RosterEntities(company_list)
       = {<<e[1], e[2], MapGet(logos, e[2])>> : e \in StoredEntities(companies)}
    /\ {<<csv[k].Quadrant, csv[k].Company, csv[k].DualUse>> : k \in 1..Len(csv)}
       = StoredEntities(companies)
    /\ Len(csv) = EntityCount(companies)
    /\ {<<figure[k].quadrant, figure[k].company>> : k \in 1..Len(figure)}
       = {<<e[1], e[2]>> : e \in ShownEntities(companies, logos, dual_use_filter_value)}

\* the Delete of Acme was received by a Store of two entities: the three views
\* show the one that is left
C15_Witness ==
    /\ request.triggered_id = DeletePropId(Acme)
    /\ Acme \in DOMAIN logo_urls
    /\ StoredNames(companies) = {AcmeInc}
    /\ RosterNames(company_list) = {AcmeInc}
    /\ ExportNames(csv) = {AcmeInc}
    /\ ImageNames(figure) = {AcmeInc}

\* quadrant and name of the entities of a Store, in its iteration order
StoreOrder(cs) ==
    [k \in 1..Len(cs["Visionaries/Innovators"]) |->
        <<"Visionaries/Innovators", cs["Visionaries/Innovators"][k].company>>]
    \o [k \in 1..Len(cs["Leaders"]) |-> <<"Leaders", cs["Leaders"][k].company>>]
    \o [k \in 1..Len(cs["Niche Players"]) |-> <<"Niche Players", cs["Niche Players"][k].company>>]
    \o [k \in 1..Len(cs["Challengers"]) |-> <<"Challengers", cs["Challengers"][k].company>>]

\* quadrant and name of the entries of a roster, in the order it lists them
RosterOrder(roster) ==
    LET names(k) == [j \in 1..Len(roster[k].items) |->
                        <<roster[k].quadrant, roster[k].items[j].company>>]
    IN  names(1) \o names(2) \o names(3) \o names(4)

ExportOrder(rows) == [k \in 1..Len(rows) |-> <<rows[k].Quadrant, rows[k].Company>>]

\* new lists the names it shares with old in the order of old, and the names
\* that old does not hold after them
InsertionOrderKept(old, new) ==
    \A a, b \in 1..Len(new) :
        a < b => /\ (new[a].company \in Keys(old) /\ new[b].company \in Keys(old))
                    => IndexOf(old, new[a].company) < IndexOf(old, new[b].company)
                 /\ new[a].company \notin Keys(old) => new[b].company \notin Keys(old)

\* C16: after every request the roster and the export list the entities in the
\* Store's iteration order: the quadrants in the order Visionaries/Innovators,
\* Leaders, Niche Players, Challengers, and the entities of a quadrant in the
\* order they were inserted (a request keeps the order of the entities that
\* stay and puts a new entity last in its quadrant).
C16_StoreIterationOrder ==
    [][/\ Len(company_list') = 4
       /\ [k \in 1..4 |-> company_list'[k].quadrant]
          = <<"Visionaries/Innovators", "Leaders", "Niche Players", "Challengers">>
       /\ RosterOrder(company_list') = StoreOrder(companies')
       /\ ExportOrder(csv') = StoreOrder(companies')
       /\ \A q \in Quadrants : InsertionOrderKept(companies[q], companies'[q])]_vars

\* Acme was added to Leaders after Acme.Inc was added to Challengers: the
\* export lists Acme first
C16_Witness ==
    /\ request.triggered_id = AddPropId
    /\ request.company_name = Acme
    /\ request.quadrant = "Leaders"
    /\ ExportOrder(csv) = << <<"Leaders", Acme>>, <<"Challengers", AcmeInc>> >>
    /\ RosterOrder(company_list) = ExportOrder(csv)

\* a filled Add request for a name that its quadrant already holds
ReAdd(req) ==
    /\ req.triggered_id = AddPropId
    /\ req.company_name \notin {None, EmptyStr}
    /\ req.quadrant \in Quadrants
    /\ req.logo_url \notin {"None", ""}
    /\ req.company_name \in Keys(companies[req.quadrant])

\* the cell of the image of name in quadrant q of a chart (the empty set: no image)
CellsOf(images, q, name) ==
    {<<images[k].x, images[k].y>> : k \in {k \in 1..Len(images) :
                                             images[k].company = name /\ images[k].quadrant = q}}

\* C17: the Add of a name that its quadrant already holds overwrites the
\* dual-use flag and the logo reference of that entity, keeps its position in
\* the quadrant (and with it its grid cell: the cell of that position in the
\* unfiltered layout, and the same cell as in the chart before whenever both
\* charts, drawn under the same filter flag, show it) and leaves the number of
\* entities, and every other entity, as they were.
C17_ReAddOverwritesInPlace ==
    [][ReAdd(request')
       => LET n == request'.company_name
              q == request'.quadrant
          IN  /\ KeySeq(companies'[q]) = KeySeq(companies[q])
              /\ EntryOf(companies', q, n).dual_use = (request'.dual_use = "['dual_use']")
              /\ logos'[n] = IF request'.logo_url = "https://logo"
                             THEN "data:image/png;base64" ELSE "None"
              /\ logo_urls'[n] = request'.logo_url
              /\ EntityCount(companies') = EntityCount(companies)
              /\ \A p \in Quadrants : \A k \in 1..Len(companies[p]) :
                    companies[p][k].company # n
                    => /\ companies'[p][k] = companies[p][k]
                       /\ MapGet(logos', companies[p][k].company)
                          = MapGet(logos, companies[p][k].company)
              /\ HasLogo(logos', n)
                 => ImageAt(QuadrantImages(q, companies'[q], logos'), n, q,
                            CellOf(q, IndexOf(companies[q], n) - 1))
              /\ (/\ dual_use_filter_value' = dual_use_filter_value
                  /\ CellsOf(figure, q, n) # {}
                  /\ CellsOf(figure', q, n) # {})
                 => CellsOf(figure', q, n) = CellsOf(figure, q, n)]_vars

\* Acme, the first of two entities of Leaders, was added again with a logo
\* that cannot be fetched and the dual-use flag: it is still the first
C17_Witness ==
    /\ request.triggered_id = AddPropId
    /\ request.company_name = Acme
    /\ request.logo_url = "https://broken"
    /\ KeySeq(companies["Leaders"]) = <<Acme, Zeta>>
    /\ companies["Leaders"][1].dual_use
    /\ logos[Acme] = "None"
    /\ logo_urls[Acme] = "https://broken"
    /\ ImageAt(figure, Zeta, "Leaders", <<85, 75>>)

\* old without its entry for name, if it has one
WithoutName(old, name) == SelectSeq(old, LAMBDA e : e.company # name)

\* C18: a Delete(name) request removes at most one entry from the quadrant
\* mappings, and every other entity keeps its quadrant, its dual-use flag, its
\* logo reference and its place relative to the others.
C18_DeleteFrame ==
    [][\A name \in AllNames :
          Deleted(name)
          => /\ EntityCount(companies') >= EntityCount(companies) - 1
             /\ \A q \in Quadrants :
                   /\ WithoutName(companies[q], name)
                      = SelectSeq(WithoutName(companies'[q], name),
                                  LAMBDA e : e.company \in Keys(companies[q]))
                   /\ \A e \in Entries(companies, q) :
                         e.company # name
                         => MapGet(logos', e.company) = MapGet(logos, e.company)]_vars

\* C19: in every reachable state the keys of the logo map are the names
\* present in the quadrant mappings.
C19_LogoKeysAreStoredNames == DOMAIN logos = StoredNames(companies)

====
